---- MODULE Spec2Model ----
(***************************************************************************)
(* stempy: StreamReader (src/stempy/reader.cpp).                           *)
(*                                                                         *)
(* A byte stream of records (a 1024-word header, then the payload the      *)
(* header declares) is decoded block by block; every data block becomes a  *)
(* task of a thread pool; after the loop the results are drained in        *)
(* submission order into two output images, which are handed to the sink.  *)
(***************************************************************************)
EXTENDS Integers, Sequences, FiniteSets, TLC

(***************************************************************************)
(* Bounds of the model.                                                    *)
(***************************************************************************)
MaxBlocks == 2
MaxImages == 2
MaxTotalImages == 3
MaxWorkers == 2
MaxWidth == 3

(***************************************************************************)
(* Constants of the program.                                               *)
(***************************************************************************)
HeaderWords == 1024
U32Bytes == 4
U16Bytes == 2
FixedFields == 5
ReservedWords == 5
BrightInner == 0
BrightOuter == 288
DarkInner == 40
DarkOuter == 288
AutoConcurrency == -1

HeaderBytesNoSizeof == HeaderWords

\* readHeader: read(headerData, 1024*sizeof(uint32_t))
HeaderBytes == HeaderWords * U32Bytes

ImageNumbersIndexOffByOne == FixedFields + ReservedWords + 1

\* readHeader: index after the five fields and "index += 5"
ImageNumbersIndex == FixedFields + ReservedWords

EofMessage == "Unexpected EOF while processing stream."

(***************************************************************************)
(* 32-bit unsigned arithmetic.  TLC's integers are narrower than a         *)
(* uint32_t product, so the product is formed from 8- and 16-bit limbs     *)
(* and reduced modulo 2^32; operands are below 2^31.                       *)
(***************************************************************************)
Half == 65536
Byte == 256

MulLow(a0, b0) ==
    LET a00 == a0 % Byte
        a01 == a0 \div Byte
        b00 == b0 % Byte
        b01 == b0 \div Byte
        p0 == a00 * b00
        p1 == a00 * b01 + a01 * b00
        p2 == a01 * b01
        t  == p0 + Byte * (p1 % Byte)
    IN  [lo |-> t % Half, carry |-> (t \div Half) + (p1 \div Byte) + p2]

Mul32Limbs(a, b) ==
    LET a0 == a % Half
        a1 == a \div Half
        b0 == b % Half
        b1 == b \div Half
        low == MulLow(a0, b0)
        hi == (((a1 * b0) % Half) + ((a0 * b1) % Half) + low.carry) % Half
    IN  hi * Half + low.lo

\* uint32_t * uint32_t, as in header.rows*header.columns*header.imagesInBlock:
\* the product modulo 2^32 (small operands cannot wrap and are multiplied
\* directly)
Mul32(a, b) ==
    IF a < Half \div 2 /\ b < Half THEN a * b ELSE Mul32Limbs(a, b)

(***************************************************************************)
(* The stream as a reference writer lays it out (little-endian host).      *)
(* A written record is                                                     *)
(*   [imagesInBlock, rows, columns, version, timestamp, reserved,          *)
(*    imageNumbers, payload]                                               *)
(* and occupies HeaderBytes bytes of header followed by the samples of     *)
(* payload, two bytes each.  The stream is never held as a byte sequence:  *)
(* WireByte gives the byte at an offset.                                   *)
(***************************************************************************)
ByteOf(v, k) == (v \div (Byte ^ k)) % Byte

\* word i (from 0) of the 1024-word header record
WriterHeaderWord(r, i) ==
    CASE i = 0 -> r.imagesInBlock
      [] i = 1 -> r.rows
      [] i = 2 -> r.columns
      [] i = 3 -> r.version
      [] i = 4 -> r.timestamp
      [] i >= FixedFields /\ i < FixedFields + ReservedWords
              -> r.reserved[i - FixedFields + 1]
      [] i >= FixedFields + ReservedWords
           /\ i < FixedFields + ReservedWords + Len(r.imageNumbers)
           /\ i < HeaderWords
              -> r.imageNumbers[i - (FixedFields + ReservedWords) + 1]
      [] OTHER -> 0

RecordBytes(r) == HeaderWords * U32Bytes + U16Bytes * Len(r.payload)

RecordByte(r, off) ==
    IF off < HeaderWords * U32Bytes
    THEN ByteOf(WriterHeaderWord(r, off \div U32Bytes), off % U32Bytes)
    ELSE ByteOf(r.payload[((off - HeaderWords * U32Bytes) \div U16Bytes) + 1],
                (off - HeaderWords * U32Bytes) % U16Bytes)

RECURSIVE WireByteFrom(_, _, _)
WireByteFrom(recs, k, off) ==
    IF k > Len(recs) THEN 0
    ELSE IF off < RecordBytes(recs[k]) THEN RecordByte(recs[k], off)
    ELSE WireByteFrom(recs, k + 1, off - RecordBytes(recs[k]))

WireByte(recs, off) == WireByteFrom(recs, 1, off)

RECURSIVE WireLength(_)
WireLength(recs) ==
    IF recs = <<>> THEN 0 ELSE RecordBytes(Head(recs)) + WireLength(Tail(recs))

\* offset of the first byte of record k
RecordStart(recs, k) == WireLength(SubSeq(recs, 1, k - 1))

(***************************************************************************)
(* Record codec.                                                           *)
(***************************************************************************)
\* four stream bytes taken as a uint32_t (reinterpret_cast of the buffer)
U32At(recs, off) ==
    WireByte(recs, off) + Byte * WireByte(recs, off + 1)
      + Byte * Byte * WireByte(recs, off + 2)
      + Byte * Byte * Byte * WireByte(recs, off + 3)

\* two stream bytes taken as a uint16_t
U16At(recs, off) == WireByte(recs, off) + Byte * WireByte(recs, off + 1)

\* read(T* value, streamsize size): m_stream.read, then throw on eof()
StreamRead(fileSize, at, size) ==
    IF fileSize - at >= size
    THEN [eof |-> FALSE, pos |-> at + size]
    ELSE [eof |-> TRUE, pos |-> fileSize]

ZeroHeader ==
    [imagesInBlock |-> 0, rows |-> 0, columns |-> 0, version |-> 0,
     timestamp |-> 0, imageNumbers |-> <<>>]

\* Block(): the default-constructed block read() returns at end of stream
EmptyBlock == [header |-> ZeroHeader, data |-> <<>>, allocated |-> FALSE]

\* what lies in memory after headerData[1023] when readHeader runs
VARIABLE stackWord

\* headerData[j]: a word of the record, or, from index 1024 on, whatever is
\* in memory after the array
HeaderDataWord(recs, at, j) ==
    IF j < HeaderWords THEN U32At(recs, at + j * U32Bytes) ELSE stackWord

\* the decoding part of readHeader(): the fields of headerData at `at`
DecodeHeader(recs, at) ==
    [imagesInBlock |-> U32At(recs, at),
     rows |-> U32At(recs, at + U32Bytes),
     columns |-> U32At(recs, at + 2 * U32Bytes),
     version |-> U32At(recs, at + 3 * U32Bytes),
     timestamp |-> U32At(recs, at + 4 * U32Bytes),
     imageNumbers |->
       [i \in 1..U32At(recs, at) |->
          HeaderDataWord(recs, at, ImageNumbersIndex + i - 1)]]

\* readHeader()
ReadHeader(recs, fileSize, at) ==
    IF StreamRead(fileSize, at, HeaderBytes).eof
    THEN [eof |-> TRUE, pos |-> StreamRead(fileSize, at, HeaderBytes).pos,
          header |-> ZeroHeader]
    ELSE [eof |-> FALSE, pos |-> StreamRead(fileSize, at, HeaderBytes).pos,
          header |-> DecodeHeader(recs, at)]

\* rows*columns*imagesInBlock as a uint32_t (Block::Block and read())
DataSize(h) == Mul32(Mul32(h.rows, h.columns), h.imagesInBlock)

\* m_stream.peek() == EOF
PeekIsEof(fileSize, at) == at >= fileSize

\* read() after readHeader() returned h: Block b(header), then the payload
ReadPayload(recs, fileSize, h, dataSize) ==
    IF StreamRead(fileSize, h.pos, dataSize * U16Bytes).eof
    THEN [kind |-> "error", block |-> EmptyBlock,
          pos |-> StreamRead(fileSize, h.pos, dataSize * U16Bytes).pos,
          hdrEof |-> FALSE, hdrPos |-> h.pos]
    ELSE [kind |-> "block",
          block |-> [header |-> h.header,
                     data |-> [j \in 1..dataSize |->
                                 U16At(recs, h.pos + (j - 1) * U16Bytes)],
                     allocated |-> TRUE],
          pos |-> StreamRead(fileSize, h.pos, dataSize * U16Bytes).pos,
          hdrEof |-> FALSE, hdrPos |-> h.pos]

\* read(): kind is "sentinel" for the return Block() of the last line,
\* "block" for a block built from a header of the stream, "error" for the
\* invalid_argument thrown when the header or the payload is short.
Read(recs, fileSize, at) ==
    IF PeekIsEof(fileSize, at)
    THEN [kind |-> "sentinel", block |-> EmptyBlock, pos |-> at,
          hdrEof |-> FALSE, hdrPos |-> at]
    ELSE CHOOSE r \in
           { IF h.eof
             THEN [kind |-> "error", block |-> EmptyBlock, pos |-> h.pos,
                   hdrEof |-> TRUE, hdrPos |-> h.pos]
             ELSE CHOOSE q \in { ReadPayload(recs, fileSize, h, n) :
                                   n \in {DataSize(h.header)} } : TRUE :
               h \in {ReadHeader(recs, fileSize, at)} } : TRUE

(***************************************************************************)
(* Masks and the per-image reduction (collaborators of reader.cpp).        *)
(***************************************************************************)
NullMask == [set |-> FALSE, rows |-> 0, columns |-> 0, inner |-> 0, outer |-> 0]

\* createAnnularMask(rows, columns, innerRadius, outerRadius)
CreateAnnularMask(rows, columns, inner, outer) ==
    [set |-> TRUE, rows |-> rows, columns |-> columns, inner |-> inner, outer |-> outer]

\* whether pixel p (from 0, row-major) of the rows x columns grid is in the
\* annulus inner <= distance from the centre < outer
MaskAt(mask, p) ==
    /\ mask.columns > 0
    /\ p \div mask.columns < mask.rows
    /\ LET di == (p \div mask.columns) - (mask.rows \div 2)
           dj == (p % mask.columns) - (mask.columns \div 2)
       IN  /\ di < mask.outer /\ -di < mask.outer
           /\ dj < mask.outer /\ -dj < mask.outer
           /\ mask.inner * mask.inner <= di * di + dj * dj
           /\ di * di + dj * dj < mask.outer * mask.outer

\* sum of data[offset .. offset+count-1] over the pixels of the mask
MaskedSum(data, offset, count, mask) ==
    LET S[k \in 0..count] ==
          IF k = 0 THEN 0
          ELSE S[k - 1] + (IF MaskAt(mask, k - 1) THEN data[offset + k] ELSE 0)
    IN  S[count]

\* calculateSTEMValues(data, offset, numberOfPixels, bright, dark, imageNumber)
CalculateSTEMValues(data, offset, numberOfPixels, bright, dark, imageNumber) ==
    [imageNumber |-> imageNumber,
     bright |-> MaskedSum(data, offset, numberOfPixels, bright),
     dark |-> MaskedSum(data, offset, numberOfPixels, dark)]

ComputeTaskLastImageFirst(b, bright, dark) ==
    LET numberOfPixels == Mul32(b.header.rows, b.header.columns)
        n == b.header.imagesInBlock
    IN  [i \in 1..n |->
           CalculateSTEMValues(b.data, Mul32(n - i, numberOfPixels), numberOfPixels,
                               bright, dark, b.header.imageNumbers[n + 1 - i])]

\* the body of the lambda handed to pool.enqueue
ComputeTask(b, bright, dark) ==
    LET numberOfPixels == Mul32(b.header.rows, b.header.columns)
    IN  [i \in 1..b.header.imagesInBlock |->
           CalculateSTEMValues(b.data, Mul32(i - 1, numberOfPixels), numberOfPixels,
                               bright, dark, b.header.imageNumbers[i])]

WriteIndexOneBased(imageNumber) == imageNumber

\* the index value.imageNumber-1; for imageNumber 0 the uint32_t wraps to
\* 2^32-1, which is written -1 here: both lie outside every array
WriteIndex(imageNumber) == imageNumber - 1


(***************************************************************************)
(* Inputs: the streams, the pool sizes and the image size the runs are     *)
(* checked on.                                                             *)
(***************************************************************************)
DataDesc(nums) ==
    [n |-> Len(nums), rows |-> 1, columns |-> 1, version |-> 1, nums |-> nums,
     withPayload |-> TRUE]

\* The unusual headers a writer may be asked to write: a block of no image, a
\* block of one 1x80 image (wide enough for the dark annulus), terminator
\* records (version 0) with and without payload, and a header whose
\* rows*columns exceeds 32 bits, and a header of one image more than the
\* header record has room for; of the last two only the header is in the
\* stream.
OddDescs ==
    { [n |-> 0, rows |-> 1, columns |-> 1, version |-> 1, nums |-> <<>>,
       withPayload |-> TRUE],
      [n |-> 1, rows |-> 1, columns |-> 80, version |-> 1, nums |-> <<MaxWidth>>,
       withPayload |-> TRUE],
      [n |-> 0, rows |-> 0, columns |-> 0, version |-> 0, nums |-> <<>>,
       withPayload |-> TRUE],
      [n |-> 1, rows |-> 1, columns |-> 1, version |-> 0, nums |-> <<1>>,
       withPayload |-> TRUE],
      [n |-> 1, rows |-> 1, columns |-> 1, version |-> 0, nums |-> <<1>>,
       withPayload |-> FALSE],
      [n |-> 1, rows |-> 65536, columns |-> 65536, version |-> 1, nums |-> <<1>>,
       withPayload |-> FALSE],
      [n |-> HeaderWords - ImageNumbersIndex + 1, rows |-> 1, columns |-> 1,
       version |-> 1, nums |-> [i \in 1..(HeaderWords - ImageNumbersIndex + 1) |-> 1],
       withPayload |-> FALSE] }

RECURSIVE SeqSum(_)
SeqSum(c) == IF c = <<>> THEN 0 ELSE Head(c) + SeqSum(Tail(c))

\* how a stream's images are split into blocks
Compositions ==
    { c \in UNION { [1..m -> 1..MaxImages] : m \in 0..MaxBlocks } :
        SeqSum(c) <= MaxTotalImages }

Canonical(t) == [i \in 1..t |-> i]

\* image numbers of a valid stream: distinct, inside the output images
CleanNumbers(t) ==
    { nums \in [1..t -> 1..MaxWidth] :
        \A i, j \in 1..t : i # j => nums[i] # nums[j] }

\* one image number outside the output images
OutsideNumbers(t) ==
    { [Canonical(t) EXCEPT ![i] = v] : i \in 1..t, v \in {0, MaxWidth + 1} }

\* one image number occurring twice
RepeatedNumbers(t) ==
    { [Canonical(t) EXCEPT ![j] = i] : i \in 1..t, j \in 2..t } \ {Canonical(t)}

Split(nums, c) ==
    [k \in DOMAIN c |->
       DataDesc(SubSeq(nums, SeqSum(SubSeq(c, 1, k - 1)) + 1, SeqSum(SubSeq(c, 1, k))))]

CanonicalDescSeqs == { Split(Canonical(SeqSum(c)), c) : c \in Compositions }

DataDescSeqs ==
    UNION { { Split(nums, c) :
                nums \in CleanNumbers(SeqSum(c)) \cup OutsideNumbers(SeqSum(c))
                           \cup RepeatedNumbers(SeqSum(c)) } : c \in Compositions }

InsertAt(ds, i, d) == SubSeq(ds, 1, i) \o <<d>> \o SubSeq(ds, i + 1, Len(ds))

\* one unusual record among the blocks of a valid stream; the header of more
\* images than it has room for is a stream of its own
OddDescSeqs ==
    UNION { { InsertAt(ds, p.i, p.d) :
                p \in { q \in [i : 0..Len(ds), d : OddDescs] :
                          q.d.n <= HeaderWords - ImageNumbersIndex \/ ds = <<>> } } :
            ds \in { x \in CanonicalDescSeqs :
                       Len(x) < MaxBlocks
                         /\ SeqSum([k \in DOMAIN x |-> x[k].n]) < MaxWidth } }

\* sample j of the payload of the k-th record of a stream
Sample(k, j) == k * 200 + j

WriteRecord(d, k) ==
    [imagesInBlock |-> d.n, rows |-> d.rows, columns |-> d.columns,
     version |-> d.version, timestamp |-> 7 + k,
     reserved |-> [i \in 1..ReservedWords |-> 40 + i],
     imageNumbers |-> d.nums,
     payload |-> IF d.withPayload
                 THEN [j \in 1..(d.rows * d.columns * d.n) |-> Sample(k, j)]
                 ELSE <<>>]

WriteStream(ds) == [k \in DOMAIN ds |-> WriteRecord(ds[k], k)]

\* file sizes: the whole stream, or its last record cut in the header or in
\* the payload
CutPoints(recs) ==
    LET total == WireLength(recs)
    IN  IF recs = <<>> THEN {0}
        ELSE LET start == RecordStart(recs, Len(recs))
                 hasPayload == recs[Len(recs)].payload # <<>>
             IN  {total, start + 1, start + HeaderBytes - 1}
                   \cup (IF hasPayload THEN {start + HeaderBytes, total - 1} ELSE {})

\* the streams: what the writer wrote and how much of it is there
Streams ==
    { [recs |-> WriteStream(ds), size |-> WireLength(WriteStream(ds))] :
        ds \in DataDescSeqs \cup OddDescSeqs }
      \cup UNION { { [recs |-> WriteStream(ds), size |-> c] :
                       c \in CutPoints(WriteStream(ds)) } : ds \in CanonicalDescSeqs }

OutOfRange(num) == num < 1 \/ num > MaxWidth

HasOutOfRange(recs) ==
    \E k \in DOMAIN recs : \E i \in DOMAIN recs[k].imageNumbers :
        OutOfRange(recs[k].imageNumbers[i])

\* what a write outside the output arrays does in a given build: the process
\* dies, the write lands in memory the run never reads, or it lands in the
\* other output array, which lies next to it on the stack
Layouts == {"crash", "nowhere", "alias"}

\* some header of the stream declares more images than words 10..1023 hold
HasOversizedHeader(recs) ==
    \E k \in DOMAIN recs : recs[k].imagesInBlock > HeaderWords - ImageNumbersIndex

StackWords == {0, MaxWidth}


(***************************************************************************)
(* StreamReader::process as a state machine.                               *)
(***************************************************************************)
VARIABLES
    records,              \* what the writer wrote
    fileSize,             \* how many bytes of it the stream holds
    concurrency,          \* argument of process
    hardwareConcurrency,  \* what std::thread::hardware_concurrency() reports
    width, height,        \* arguments of process
    layout,               \* effect of a write outside the output arrays
    pos,                  \* read position of m_stream
    pc,                   \* where the thread running process is
    poolSize,             \* number of threads of the pool
    tasks,                \* the pool's queue
    running,              \* per pool thread: the task it runs, if any
    results,              \* the futures, in submission order
    completed,            \* ids of the finished tasks, in completion order
    thrown,               \* ids of the tasks that ended with an exception
    buffers,              \* per submitted block: whether its pixel buffer is alive
    brightFieldMask, darkFieldMask,
    maskBuilds,           \* calls of createAnnularMask so far
    reads,                \* the calls of read() so far
    next,                 \* index in results of the future being drained
    values, valueIndex,   \* the vector got from it, and the value to write
    brightPixels, darkPixels,
    writeLog,             \* the array writes so far
    sink,                 \* what was handed to the sink
    error                 \* message of the exception process ended with

vars ==
    <<records, fileSize, concurrency, hardwareConcurrency, width, height, layout,
      stackWord, pos, pc, poolSize, tasks, running, results, completed, thrown,
      buffers, brightFieldMask, darkFieldMask, maskBuilds, reads, next, values, valueIndex,
      brightPixels, darkPixels, writeLog, sink, error>>

inputs ==
    <<records, fileSize, concurrency, hardwareConcurrency, width, height, layout,
      stackWord>>

Terminal == {"done", "failed", "crashed"}

Init ==
    /\ \E st \in Streams : records = st.recs /\ fileSize = st.size
    /\ concurrency \in {AutoConcurrency} \cup 0..MaxWorkers
    /\ hardwareConcurrency \in
         IF concurrency = AutoConcurrency THEN {0, MaxWorkers} ELSE {MaxWorkers}
    /\ width = MaxWidth
    /\ height = 1
    /\ layout \in IF HasOutOfRange(records) THEN Layouts ELSE {"crash"}
    /\ stackWord \in IF HasOversizedHeader(records) THEN StackWords ELSE {0}
    /\ pos = 0
    /\ pc = "start"
    /\ poolSize = 0
    /\ tasks = <<>>
    /\ running = [w \in 1..MaxWorkers |-> <<>>]
    /\ results = <<>>
    /\ completed = <<>>
    /\ thrown = {}
    /\ buffers = <<>>
    /\ brightFieldMask = NullMask
    /\ darkFieldMask = NullMask
    /\ maskBuilds = 0
    /\ reads = <<>>
    /\ next = 1
    /\ values = <<>>
    /\ valueIndex = 1
    /\ brightPixels = <<>>
    /\ darkPixels = <<>>
    /\ writeLog = <<>>
    /\ sink = <<>>
    /\ error = ""

\* if (concurrency == -1) concurrency = hardware_concurrency(); ThreadPool pool(concurrency)
CreatePool ==
    /\ pc = "start"
    /\ poolSize' = IF concurrency = AutoConcurrency THEN hardwareConcurrency
                   ELSE concurrency
    /\ pc' = "reading"
    /\ UNCHANGED <<completed, thrown, buffers, maskBuilds, inputs, pos, tasks, running, results, brightFieldMask,
                   darkFieldMask, reads, next, values, valueIndex, brightPixels,
                   darkPixels, writeLog, sink, error>>

ReadRecord(r) ==
    [at |-> pos, kind |-> r.kind, block |-> r.block, pos |-> r.pos,
     hdrEof |-> r.hdrEof, hdrPos |-> r.hdrPos]

ReadErrorTakenAsEndOfStream == "draining"

\* process has no try/catch: an exception of read() leaves process
AfterReadError == "failed"

\* this->read() throws: process ends with the exception
LoopReadFails(r) ==
    /\ r.kind = "error"
    /\ pos' = r.pos
    /\ reads' = Append(reads, ReadRecord(r))
    /\ pc' = AfterReadError
    /\ error' = EofMessage
    /\ UNCHANGED <<completed, thrown, buffers, maskBuilds, inputs, poolSize, tasks, running, results, brightFieldMask,
                   darkFieldMask, next, values, valueIndex, brightPixels, darkPixels,
                   writeLog, sink>>

\* b.header.version == 0: break, then the two arrays are allocated, zeroed
LoopBreak(r) ==
    /\ r.kind # "error"
    /\ r.block.header.version = 0
    /\ pos' = r.pos
    /\ reads' = Append(reads, ReadRecord(r))
    /\ pc' = "draining"
    /\ brightPixels' = [i \in 1..(width * height) |-> 0]
    /\ darkPixels' = [i \in 1..(width * height) |-> 0]
    /\ UNCHANGED <<completed, thrown, buffers, maskBuilds, inputs, poolSize, tasks, running, results, brightFieldMask,
                   darkFieldMask, next, values, valueIndex, writeLog, sink, error>>

ResultSlotByCompletion(id, res) ==
    CHOOSE i \in DOMAIN res :
        ~res[i].ready /\ \A j \in DOMAIN res : j < i => res[j].ready

\* the future a task fulfils is the one enqueue returned for it
ResultSlot(id, res) == id

BufferFreedAtEndOfLoopBody == "released"

\* [b{move(b)}, ...]: the block is moved into the lambda, so its
\* shared_ptr keeps the pixel buffer alive as long as the task object exists
BufferAfterSubmit == "held"

MaskBuiltForEveryBlock(current, rows, columns, inner, outer) ==
    CreateAnnularMask(rows, columns, inner, outer)

\* if (mask == nullptr) { mask = createAnnularMask(rows, columns, inner, outer); }
MaskOnFirstUse(current, rows, columns, inner, outer) ==
    IF current = NullMask THEN CreateAnnularMask(rows, columns, inner, outer)
    ELSE current

\* a data block: masks on first use, then results.push_back(pool.enqueue(...))
LoopSubmit(r) ==
    /\ r.kind # "error"
    /\ r.block.header.version # 0
    /\ pos' = r.pos
    /\ reads' = Append(reads, ReadRecord(r))
    /\ brightFieldMask' =
         MaskOnFirstUse(brightFieldMask, r.block.header.rows, r.block.header.columns,
                        BrightInner, BrightOuter)
    /\ darkFieldMask' =
         MaskOnFirstUse(darkFieldMask, r.block.header.rows, r.block.header.columns,
                        DarkInner, DarkOuter)
    /\ maskBuilds' = maskBuilds + (IF brightFieldMask = NullMask THEN 1 ELSE 0)
                                + (IF darkFieldMask = NullMask THEN 1 ELSE 0)
    /\ results' = Append(results, [ready |-> FALSE, values |-> <<>>, exception |-> ""])
    /\ tasks' = Append(tasks, [id |-> Len(results) + 1, block |-> r.block,
                               bright |-> brightFieldMask', dark |-> darkFieldMask'])
    /\ buffers' = Append(buffers, BufferAfterSubmit)
    /\ UNCHANGED <<completed, thrown, inputs, pc, poolSize, running, next, values,
                   valueIndex, brightPixels, darkPixels, writeLog, sink, error>>

\* one turn of the while(true) loop: Block b = this->read(), then one of the
\* three ways on
LoopStep ==
    /\ pc = "reading"
    /\ \E r \in {Read(records, fileSize, pos)} :
         \/ LoopReadFails(r)
         \/ LoopBreak(r)
         \/ LoopSubmit(r)

\* a pool thread takes the oldest queued task
WorkerTake(w) ==
    /\ w <= poolSize
    /\ pc # "crashed"
    /\ running[w] = <<>>
    /\ tasks # <<>>
    /\ running' = [running EXCEPT ![w] = <<Head(tasks)>>]
    /\ tasks' = Tail(tasks)
    /\ UNCHANGED <<completed, thrown, buffers, maskBuilds, inputs, pos, pc, poolSize, results, brightFieldMask, darkFieldMask,
                   reads, next, values, valueIndex, brightPixels, darkPixels, writeLog,
                   sink, error>>

TaskWritesItsFirstValue(image, vals, field) ==
    IF image = <<>> \/ vals = <<>> THEN image
    ELSE IF vals[1].imageNumber \notin DOMAIN image THEN image
    ELSE [image EXCEPT ![vals[1].imageNumber] = vals[1][field]]

\* the lambda captures the block and the two mask pointers and nothing else:
\* a task leaves an output image as it is
ImageAfterTask(image, vals, field) == image

\* the task returns its values: its future becomes ready
WorkerFinish(w) ==
    /\ w <= poolSize
    /\ pc # "crashed"
    /\ running[w] # <<>>
    /\ \E t \in {running[w][1]} :
         \E vals \in {ComputeTask(t.block, t.bright, t.dark)} :
           /\ results' = [results EXCEPT ![ResultSlot(t.id, results)] =
                            [ready |-> TRUE, values |-> vals, exception |-> ""]]
           /\ completed' = Append(completed, t.id)
           /\ buffers' = [buffers EXCEPT ![t.id] = "released"]
           /\ brightPixels' = ImageAfterTask(brightPixels, vals, "bright")
           /\ darkPixels' = ImageAfterTask(darkPixels, vals, "dark")
    /\ running' = [running EXCEPT ![w] = <<>>]
    /\ UNCHANGED <<thrown, maskBuilds, inputs, pos, pc, poolSize, tasks, brightFieldMask,
                   darkFieldMask, reads, next, values, valueIndex, writeLog, sink,
                   error>>

TaskFailure == "std::bad_alloc"

\* a task ends with an exception (values.push_back or calculateSTEMValues
\* throws): the exception is stored in the task's future and the pool thread
\* goes on
WorkerThrows(w) ==
    /\ w <= poolSize
    /\ pc # "crashed"
    /\ running[w] # <<>>
    /\ \E t \in {running[w][1]} :
         /\ results' = [results EXCEPT ![ResultSlot(t.id, results)] =
                          [ready |-> TRUE, values |-> <<>>, exception |-> TaskFailure]]
         /\ completed' = Append(completed, t.id)
         /\ thrown' = thrown \cup {t.id}
         /\ buffers' = [buffers EXCEPT ![t.id] = "released"]
    /\ running' = [running EXCEPT ![w] = <<>>]
    /\ UNCHANGED <<maskBuilds, inputs, pos, pc, poolSize, tasks, brightFieldMask,
                   darkFieldMask, reads, next, values, valueIndex, brightPixels,
                   darkPixels, writeLog, sink, error>>

GetNeverThrows(res) == FALSE

\* future::get() throws the exception its task ended with
GetRethrows(res) == res.exception # ""

\* valuesInBlock.get(): blocks until the future is ready
DrainGet ==
    /\ pc = "draining"
    /\ next <= Len(results)
    /\ results[next].ready
    /\ IF GetRethrows(results[next])
       THEN /\ pc' = "failed"
            /\ error' = results[next].exception
            /\ UNCHANGED <<values, valueIndex, next>>
       ELSE /\ values' = results[next].values
            /\ valueIndex' = 1
            /\ IF results[next].values = <<>>
               THEN next' = next + 1 /\ pc' = "draining"
               ELSE next' = next /\ pc' = "writing"
            /\ UNCHANGED error
    /\ UNCHANGED <<completed, thrown, buffers, maskBuilds, inputs, pos, poolSize, tasks, running,
                   results, brightFieldMask, darkFieldMask, reads, brightPixels,
                   darkPixels, writeLog, sink>>

InBounds(index) == index >= 0 /\ index < width * height

StoreAccumulates(old, new) == old + new

\* pixels[i] = value: the element is assigned, not added to
Store(old, new) == new

\* brightPixels[value.imageNumber-1] = value.bright;
\* darkPixels[value.imageNumber-1] = value.dark;
WriteValue ==
    /\ pc = "writing"
    /\ valueIndex <= Len(values)
    /\ LET value == values[valueIndex]
           index == WriteIndex(value.imageNumber)
           cell == (index % (width * height)) + 1
           last == valueIndex = Len(values)
       IN  /\ writeLog' = Append(writeLog, [task |-> next, value |-> valueIndex,
                                            index |-> index])
           /\ IF InBounds(index)
              THEN /\ brightPixels' = [brightPixels EXCEPT
                                      ![index + 1] = Store(@, value.bright)]
                   /\ darkPixels' = [darkPixels EXCEPT
                                    ![index + 1] = Store(@, value.dark)]
              ELSE IF layout = "alias"
              THEN /\ darkPixels' = [darkPixels EXCEPT ![cell] = value.bright]
                   /\ brightPixels' = [brightPixels EXCEPT ![cell] = value.dark]
              ELSE UNCHANGED <<brightPixels, darkPixels>>
           /\ IF ~InBounds(index) /\ layout = "crash"
              THEN pc' = "crashed" /\ UNCHANGED <<next, valueIndex>>
              ELSE IF last
              THEN pc' = "draining" /\ next' = next + 1 /\ valueIndex' = 1
              ELSE pc' = "writing" /\ next' = next /\ valueIndex' = valueIndex + 1
    /\ UNCHANGED <<completed, thrown, buffers, maskBuilds, inputs, pos, poolSize, tasks, running, results, brightFieldMask,
                   darkFieldMask, reads, values, sink, error>>

\* the two images are emitted, or written to the two files
Handoff ==
    /\ pc = "draining"
    /\ next > Len(results)
    /\ sink' = Append(sink, [bright |-> brightPixels, dark |-> darkPixels])
    /\ pc' = "done"
    /\ UNCHANGED <<completed, thrown, buffers, maskBuilds, inputs, pos, poolSize, tasks, running, results, brightFieldMask,
                   darkFieldMask, reads, next, values, valueIndex, brightPixels,
                   darkPixels, writeLog, error>>

Next ==
    \/ CreatePool
    \/ LoopStep
    \/ \E w \in 1..MaxWorkers : WorkerTake(w)
    \/ \E w \in 1..MaxWorkers : WorkerFinish(w)
    \/ DrainGet
    \/ WriteValue
    \/ Handoff

Spec == Init /\ [][Next]_vars

\* the runs in which a task may also end with an exception
FailNext ==
    \/ Next
    \/ \E w \in 1..MaxWorkers : WorkerThrows(w)

FailSpec == Init /\ [][FailNext]_vars

(***************************************************************************)
(* The same stream processed without a pool: every block's values are      *)
(* computed when the block is read, and written in that order.             *)
(***************************************************************************)
\* the data blocks the loop meets from position `at` on, and whether it ends
\* with the exception of read()
RECURSIVE BlocksFrom(_, _, _)
BlocksFrom(recs, size, at) ==
    CHOOSE out \in
      { IF r.kind = "error" THEN [failed |-> TRUE, blocks |-> <<>>]
        ELSE IF r.block.header.version = 0 THEN [failed |-> FALSE, blocks |-> <<>>]
        ELSE CHOOSE o \in
               { [failed |-> rest.failed, blocks |-> <<r.block>> \o rest.blocks] :
                   rest \in {BlocksFrom(recs, size, r.pos)} } : TRUE :
        r \in {Read(recs, size, at)} } : TRUE

RECURSIVE ValuesOf(_, _, _)
ValuesOf(blocks, bright, dark) ==
    IF blocks = <<>> THEN <<>>
    ELSE ComputeTask(Head(blocks), bright, dark) \o ValuesOf(Tail(blocks), bright, dark)

\* the values written one after the other into zeroed images of n pixels;
\* handed is FALSE when a write ends the process
RECURSIVE WriteAll(_, _, _, _)
WriteAll(out, vals, n, lay) ==
    IF vals = <<>> \/ ~out.handed THEN out
    ELSE LET v == Head(vals)
             at == v.imageNumber
             cell == ((v.imageNumber - 1) % n) + 1
         IN  IF at >= 1 /\ at <= n
             THEN WriteAll([out EXCEPT !.bright[at] = v.bright, !.dark[at] = v.dark],
                           Tail(vals), n, lay)
             ELSE IF lay = "alias"
             THEN WriteAll([out EXCEPT !.dark[cell] = v.bright, !.bright[cell] = v.dark],
                           Tail(vals), n, lay)
             ELSE IF lay = "nowhere" THEN WriteAll(out, Tail(vals), n, lay)
             ELSE [out EXCEPT !.handed = FALSE]

SequentialOutput(recs, size, n, lay) ==
    CHOOSE out \in
      { IF run.failed THEN [handed |-> FALSE, bright |-> <<>>, dark |-> <<>>]
        ELSE WriteAll([handed |-> TRUE, bright |-> [i \in 1..n |-> 0],
                       dark |-> [i \in 1..n |-> 0]],
                      IF run.blocks = <<>> THEN <<>>
                      ELSE ValuesOf(run.blocks,
                                    CreateAnnularMask(run.blocks[1].header.rows,
                                                      run.blocks[1].header.columns,
                                                      BrightInner, BrightOuter),
                                    CreateAnnularMask(run.blocks[1].header.rows,
                                                      run.blocks[1].header.columns,
                                                      DarkInner, DarkOuter)),
                      n, lay) :
        run \in {BlocksFrom(recs, size, 0)} } : TRUE

(***************************************************************************)
(* C1.  For a fixed input stream the two images handed to the sink are     *)
(* the same for every concurrency value and every interleaving and         *)
(* completion order of the tasks: whenever process hands the images over,  *)
(* they are the images of the sequential run on the same stream, which     *)
(* depend on nothing but the stream, width*height and the build.           *)
(***************************************************************************)
C1_OutputIndependentOfSchedule ==
    pc = "done" =>
      \A ref \in {SequentialOutput(records, fileSize, width * height, layout)} :
        /\ ref.handed
        /\ sink = <<[bright |-> ref.bright, dark |-> ref.dark]>>

\* a handoff after two tasks finished in the reverse of their submission
\* order, on a pool of several threads, with a populated image
C1_Witness ==
    /\ pc = "done"
    /\ poolSize >= 2
    /\ \E a, b \in DOMAIN completed : a < b /\ completed[a] > completed[b]
    /\ \E i \in DOMAIN sink[1].bright : sink[1].bright[i] # 0

(***************************************************************************)
(* C2.  For a valid stream (well-formed blocks, image numbers pairwise     *)
(* distinct and within [1, width*height], then end of stream) the images   *)
(* at handoff hold at index n-1 the bright/dark values of the image        *)
(* numbered n, and 0 at every index no image of the stream is numbered     *)
(* for.                                                                    *)
(***************************************************************************)
WellFormedRecord(r) ==
    /\ r.version # 0
    /\ r.imagesInBlock = Len(r.imageNumbers)
    /\ r.imagesInBlock <= HeaderWords - ImageNumbersIndex
    /\ r.rows < Half /\ r.columns < Half /\ r.rows * r.columns < Half
    /\ Len(r.payload) = r.rows * r.columns * r.imagesInBlock

WellFormedStream(recs, size) ==
    /\ size = WireLength(recs)
    /\ \A k \in DOMAIN recs : WellFormedRecord(recs[k])

ValidStream(recs, size, n) ==
    /\ WellFormedStream(recs, size)
    /\ \A k \in DOMAIN recs : \A i \in DOMAIN recs[k].imageNumbers :
         /\ recs[k].imageNumbers[i] \in 1..n
         /\ \A l \in DOMAIN recs : \A j \in DOMAIN recs[l].imageNumbers :
              recs[k].imageNumbers[i] = recs[l].imageNumbers[j] => k = l /\ i = j

\* the values of image i of written record k, from the samples as written
ExpectedValues(recs, k, i) ==
    CalculateSTEMValues(recs[k].payload,
                        (i - 1) * recs[k].rows * recs[k].columns,
                        recs[k].rows * recs[k].columns,
                        CreateAnnularMask(recs[1].rows, recs[1].columns,
                                          BrightInner, BrightOuter),
                        CreateAnnularMask(recs[1].rows, recs[1].columns,
                                          DarkInner, DarkOuter),
                        recs[k].imageNumbers[i])

C2_ValidStreamPopulatesByNumber ==
    (pc = "done" /\ ValidStream(records, fileSize, width * height)) =>
      /\ Len(sink) = 1
      /\ \A n \in 1..(width * height) :
           IF \E k \in DOMAIN records : \E i \in DOMAIN records[k].imageNumbers :
                records[k].imageNumbers[i] = n
           THEN \A k \in DOMAIN records : \A i \in DOMAIN records[k].imageNumbers :
                  records[k].imageNumbers[i] = n =>
                    /\ sink[1].bright[n] = ExpectedValues(records, k, i).bright
                    /\ sink[1].dark[n] = ExpectedValues(records, k, i).dark
           ELSE sink[1].bright[n] = 0 /\ sink[1].dark[n] = 0

\* a handoff for a valid stream of two blocks, one of them with a dark value,
\* that leaves an index unpopulated
C2_Witness ==
    /\ pc = "done"
    /\ ValidStream(records, fileSize, width * height)
    /\ Len(records) = 2
    /\ \E i \in DOMAIN sink[1].bright : sink[1].bright[i] > 0
    /\ \E i \in DOMAIN sink[1].dark : sink[1].dark[i] > 0
    /\ \E i \in DOMAIN sink[1].bright : sink[1].bright[i] = 0 /\ sink[1].dark[i] = 0

(***************************************************************************)
(* C3.  Whenever read() has started a record and the payload size the      *)
(* header declares exceeds the bytes left in the stream after the header,  *)
(* read() fails with the truncation error; it returns neither the          *)
(* end-of-stream block nor a data block.                                   *)
(***************************************************************************)
\* rows*columns*imagesInBlock samples of two bytes are more than `remaining`
\* bytes; by division, so that no product is formed
DeclaredPayloadExceeds(h, remaining) ==
    /\ h.rows > 0
    /\ h.columns > 0
    /\ ((remaining \div U16Bytes) \div h.rows) \div h.columns < h.imagesInBlock

NumbersInRange(recs, n) ==
    \A k \in DOMAIN recs : \A i \in DOMAIN recs[k].imageNumbers :
      recs[k].imageNumbers[i] \in 1..n

\* the half of the statement about read()
SentinelExactlyAtEnd ==
    /\ \A i \in DOMAIN reads :
         /\ reads[i].kind = "sentinel" <=> reads[i].at >= fileSize
         /\ reads[i].kind = "sentinel" =>
              reads[i].block.header.version = 0 /\ reads[i].pos = reads[i].at
    /\ WellFormedStream(records, fileSize) =>
         /\ pc # "failed" /\ error = ""
         /\ Len(reads) <= Len(records) + 1
         /\ \A i \in DOMAIN reads :
              reads[i].kind = IF i <= Len(records) THEN "block" ELSE "sentinel"
         /\ pc \notin {"start", "reading"} => Len(reads) = Len(records) + 1

C4_CleanEndOfStream ==
    /\ SentinelExactlyAtEnd
    /\ (WellFormedStream(records, fileSize)
          /\ NumbersInRange(records, width * height)) =>
         (pc = "done" \/ ENABLED Next)

(***************************************************************************)
(* C5.  readHeader() consumes exactly 4096 bytes when they are there; when *)
(* 1 to 4095 bytes are left, read() fails with the truncation error, the   *)
(* one a short payload gives: it neither ends the stream cleanly nor       *)
(* returns a header.                                                       *)
(***************************************************************************)
C5_HeaderIsWholeOrTruncation ==
    \A i \in DOMAIN reads :
      reads[i].kind # "sentinel" =>
        IF fileSize - reads[i].at >= 4096
        THEN ~reads[i].hdrEof /\ reads[i].hdrPos = reads[i].at + 4096
        ELSE /\ fileSize - reads[i].at >= 1
             /\ reads[i].hdrEof
             /\ reads[i].kind = "error"
             /\ reads[i].block = EmptyBlock
             /\ i = Len(reads)
             /\ pc = "failed"
             /\ error = EofMessage

\* a second record of which less than a header is there, after a first
\* record whose header was consumed whole
C5_Witness ==
    /\ Len(reads) = 2
    /\ reads[1].kind = "block"
    /\ reads[1].hdrPos = reads[1].at + 4096
    /\ fileSize - reads[2].at \in 1..4095
    /\ reads[2].kind = "error"
    /\ pc = "failed"

(***************************************************************************)
(* C6.  A header with version 0 found in the stream is a terminator        *)
(* without payload: the pipeline stops cleanly on it, needing and          *)
(* consuming no byte after the header whatever its rows, columns and       *)
(* imagesInBlock say; no task is submitted for it or for a record after    *)
(* it.                                                                     *)
(***************************************************************************)
TerminatorRead(i) ==
    /\ reads[i].kind # "sentinel"
    /\ ~reads[i].hdrEof
    /\ DecodeHeader(records, reads[i].at).version = 0

C6_TerminatorCarriesNoPayload ==
    \A i \in DOMAIN reads :
      TerminatorRead(i) =>
        /\ reads[i].kind = "block"
        /\ reads[i].pos = reads[i].hdrPos
        /\ pc # "failed"
        /\ i = Len(reads)
        /\ Len(results) = i - 1

(***************************************************************************)
(* C7.  For every stream read() accepts, every value the drain loop        *)
(* writes has its imageNumber in [1, width*height]: every write index      *)
(* imageNumber-1 is in [0, width*height-1], and no write lands outside     *)
(* the two output arrays.                                                  *)
(***************************************************************************)
C7_WritesStayInsideImages ==
    \A i \in DOMAIN writeLog :
      writeLog[i].index >= 0 /\ writeLog[i].index <= width * height - 1

(***************************************************************************)
(* C8.  On every run that reaches the end-of-stream block the two images   *)
(* are handed to the sink exactly once, after the results of every         *)
(* submitted task have been drained into them, and never before the        *)
(* end-of-stream block was read.                                           *)
(***************************************************************************)
ReachedEndOfStream ==
    reads # <<>> /\ reads[Len(reads)].kind # "error"
      /\ reads[Len(reads)].block.header.version = 0

AllDrained ==
    /\ next = Len(results) + 1
    /\ \A i \in DOMAIN results : results[i].ready
    /\ tasks = <<>>
    /\ \A w \in DOMAIN running : running[w] = <<>>

\* the half of the statement about the order of events
HandoffOnlyAfterDrain ==
    /\ Len(sink) <= 1
    /\ sink # <<>> => ReachedEndOfStream /\ AllDrained /\ pc = "done"

C8_HandoffExactlyOnce ==
    /\ HandoffOnlyAfterDrain
    /\ (ReachedEndOfStream /\ (pc \in Terminal \/ ~ENABLED Next)) => Len(sink) = 1

(***************************************************************************)
(* C9.  Decoding with readHeader a header written by a reference writer    *)
(* gives back imagesInBlock, rows, columns, version, timestamp and the     *)
(* imageNumbers in their order, and read() gives back the samples of the   *)
(* payload in their order.                                                 *)
(***************************************************************************)
\* read i starts at the first byte of written record i
AlignedRead(i) ==
    /\ i <= Len(records)
    /\ reads[i].at = RecordStart(records, i)
    /\ reads[i].kind = "block"

C9_RoundTrip ==
    \A i \in DOMAIN reads :
      AlignedRead(i) =>
        /\ reads[i].block.header.imagesInBlock = records[i].imagesInBlock
        /\ reads[i].block.header.rows = records[i].rows
        /\ reads[i].block.header.columns = records[i].columns
        /\ reads[i].block.header.version = records[i].version
        /\ reads[i].block.header.timestamp = records[i].timestamp
        /\ reads[i].block.header.imageNumbers = records[i].imageNumbers
        /\ (records[i].rows < Half /\ records[i].columns < Half
              /\ Len(records[i].payload)
                   = records[i].rows * records[i].columns * records[i].imagesInBlock)
             => reads[i].block.data = records[i].payload

\* a second record of two images, numbered in descending order, read back
\* with its samples
C9_Witness ==
    /\ Len(reads) >= 2
    /\ AlignedRead(2)
    /\ Len(reads[2].block.header.imageNumbers) = 2
    /\ reads[2].block.header.imageNumbers[1] > reads[2].block.header.imageNumbers[2]
    /\ reads[2].block.header.timestamp # reads[1].block.header.timestamp
    /\ Len(reads[2].block.data) = 2
    /\ reads[2].block.data[2] >= Byte

(***************************************************************************)
(* C10.  For every finite stream and every concurrency value process       *)
(* accepts, the default -1 included, process terminates, with the handoff  *)
(* or with a fatal error: every submitted task completes and the drain     *)
(* loop never waits for ever on a future.  Stated as: a run that has not   *)
(* ended always has a step it can take.                                    *)
(***************************************************************************)
C10_NeverBlockedForever ==
    pc \in Terminal \/ ENABLED Next

(***************************************************************************)
(* C11.  The futures are drained strictly in submission order, which is    *)
(* the order the blocks arrived in: the drain waits on the oldest          *)
(* undrained future and writes no value of a later block before every      *)
(* value of every earlier block was written, even when the later task      *)
(* finished first; the values of a block are written in the block's image  *)
(* order.                                                                  *)
(***************************************************************************)
\* write i comes right after write i-1 in the order (block, image)
FollowsInOrder(i) ==
    LET e == writeLog[i]
        first == IF i = 1 THEN 1 ELSE writeLog[i - 1].task + 1
    IN  /\ e.task \in DOMAIN results
        /\ e.value \in DOMAIN reads[e.task].block.header.imageNumbers
        /\ e.index = reads[e.task].block.header.imageNumbers[e.value] - 1
        /\ IF e.value > 1
           THEN i > 1 /\ writeLog[i - 1].task = e.task
                      /\ writeLog[i - 1].value = e.value - 1
           ELSE /\ i > 1 =>
                     writeLog[i - 1].value
                       = reads[writeLog[i - 1].task].block.header.imagesInBlock
                /\ \A t \in first..(e.task - 1) :
                     reads[t].block.header.imagesInBlock = 0

C11_DrainInSubmissionOrder ==
    /\ \A i \in DOMAIN writeLog : FollowsInOrder(i)
    /\ \A t \in DOMAIN results :
         (t < next \/ (t = next /\ pc \in {"writing", "crashed"})) => results[t].ready
    /\ pc \in {"start", "reading"} => writeLog = <<>> /\ next = 1

\* the second task finished first, and the values of the first block were
\* written before those of the second
C11_Witness ==
    /\ Len(completed) >= 2 /\ completed[1] = 2
    /\ Len(writeLog) >= 2
    /\ writeLog[1].task = 1
    /\ writeLog[Len(writeLog)].task = 2
    /\ writeLog[Len(writeLog)].value = 2

(***************************************************************************)
(* C12.  In one run of process each of the two masks is constructed at     *)
(* most once, from the rows and columns of the first data block, before    *)
(* the first task that reads it is submitted; it is not constructed when   *)
(* the stream has no data block, and it is never rebuilt or changed        *)
(* afterwards, even when a later block has other dimensions.               *)
(***************************************************************************)
MasksOfFirstBlock ==
    /\ brightFieldMask = CreateAnnularMask(reads[1].block.header.rows,
                                           reads[1].block.header.columns,
                                           BrightInner, BrightOuter)
    /\ darkFieldMask = CreateAnnularMask(reads[1].block.header.rows,
                                         reads[1].block.header.columns,
                                         DarkInner, DarkOuter)

C12_MasksBuiltOnceFromFirstBlock ==
    /\ results = <<>> =>
         maskBuilds = 0 /\ brightFieldMask = NullMask /\ darkFieldMask = NullMask
    /\ results # <<>> => maskBuilds = 2 /\ MasksOfFirstBlock
    /\ \A i \in DOMAIN tasks :
         tasks[i].bright = brightFieldMask /\ tasks[i].dark = darkFieldMask
    /\ \A w \in DOMAIN running : \A i \in DOMAIN running[w] :
         running[w][i].bright = brightFieldMask /\ running[w][i].dark = darkFieldMask

\* a second block of other dimensions than the first was submitted
C12_Witness ==
    /\ Len(results) = 2
    /\ reads[2].block.header.columns # reads[1].block.header.columns
    /\ brightFieldMask.columns = reads[1].block.header.columns
    /\ maskBuilds = 2

(***************************************************************************)
(* C13.  The bright mask is built with the radii (0, boundary) and the     *)
(* dark mask with (boundary, outerBoundary): the outer radius of the       *)
(* bright mask is the inner radius of the dark mask, so the two masks      *)
(* split the disk of radius outerBoundary at the single value boundary     *)
(* and no pixel is in both.                                                *)
(***************************************************************************)
C13_MasksSplitTheDisk ==
    results # <<>> =>
      /\ brightFieldMask.inner = 0
      /\ brightFieldMask.outer = darkFieldMask.inner
      /\ darkFieldMask.inner <= darkFieldMask.outer
      /\ \A p \in 0..(brightFieldMask.rows * brightFieldMask.columns - 1) :
           ~(MaskAt(brightFieldMask, p) /\ MaskAt(darkFieldMask, p))

(***************************************************************************)
(* C14.  When read() fails with the truncation error, also after blocks    *)
(* were submitted, process ends with that error: no result is written to   *)
(* the output images, nothing is handed to the sink, and no further        *)
(* record is read.                                                         *)
(***************************************************************************)
C14_TruncationAbortsProcess ==
    \A i \in DOMAIN reads :
      reads[i].kind = "error" =>
        /\ i = Len(reads)
        /\ pos = reads[i].pos
        /\ pc = "failed"
        /\ error = EofMessage
        /\ writeLog = <<>>
        /\ brightPixels = <<>> /\ darkPixels = <<>>
        /\ next = 1
        /\ sink = <<>>

\* the error came after a block was submitted, and the task of that block
\* has finished since
C14_Witness ==
    /\ Len(reads) = 2
    /\ reads[1].kind = "block"
    /\ reads[2].kind = "error"
    /\ Len(results) = 1 /\ results[1].ready
    /\ results[1].values # <<>>
    /\ pc = "failed"

(***************************************************************************)
(* C15.  A failure raised inside a task neither ends its pool thread nor   *)
(* is dropped: the drain loop meets it when it drains the future of that   *)
(* task, in submission order; process then ends with that failure and      *)
(* hands nothing to the sink; the results of the blocks drained before it  *)
(* have been written, none after it.                                       *)
(***************************************************************************)
\* the writes of the drain loop are exactly the values of the tasks 1..n
WrittenUpTo(n) ==
    /\ \A i \in DOMAIN writeLog : writeLog[i].task <= n
    /\ \A t \in 1..n : \A v \in DOMAIN results[t].values :
         \E i \in DOMAIN writeLog : writeLog[i].task = t /\ writeLog[i].value = v

C15_TaskFailureSurfacesAtDrain ==
    /\ \A t \in thrown :
         /\ results[t].ready /\ results[t].exception = TaskFailure
         /\ next <= t
         /\ sink = <<>>
         /\ pc # "done"
    /\ \A i \in DOMAIN completed : results[completed[i]].ready
    /\ \A w \in 1..poolSize :
         (running[w] = <<>> /\ tasks # <<>> /\ pc # "crashed") => ENABLED WorkerTake(w)
    /\ (pc = "failed" /\ error = TaskFailure) =>
         /\ next \in thrown
         /\ \A t \in thrown : next <= t
         /\ WrittenUpTo(next - 1)
    /\ (thrown # {} /\ pc \in {"draining", "writing"}) => \A t \in thrown : next <= t

\* on a pool of one thread the first task failed and the thread then ran the
\* second; the drain loop ended with the failure of the first
C15_Witness ==
    /\ poolSize = 1
    /\ completed = <<1, 2>>
    /\ thrown = {1}
    /\ results[2].ready /\ results[2].values # <<>>
    /\ pc = "failed" /\ error = TaskFailure
    /\ next = 1

(***************************************************************************)
(* C16.  For every header (rows, columns, imagesInBlock as 32-bit words)   *)
(* the payload read() allocates and consumes is exactly                    *)
(* rows*columns*imagesInBlock samples of two bytes, the product taken      *)
(* without wrap-around: the 32-bit product used for the buffer and for     *)
(* the read never differs from the mathematical product.                   *)
(***************************************************************************)
\* n = rows*columns*imagesInBlock; by division, so that no product is formed
IsExactProduct(n, h) ==
    IF h.rows = 0 \/ h.columns = 0 \/ h.imagesInBlock = 0 THEN n = 0
    ELSE /\ n % h.rows = 0
         /\ (n \div h.rows) % h.columns = 0
         /\ (n \div h.rows) \div h.columns = h.imagesInBlock

C16_PayloadSizeIsExactProduct ==
    \A i \in DOMAIN reads :
      reads[i].kind = "block" =>
        /\ IsExactProduct(Len(reads[i].block.data), reads[i].block.header)
        /\ IsExactProduct((reads[i].pos - reads[i].hdrPos) \div U16Bytes,
                          reads[i].block.header)
        /\ DataSize(reads[i].block.header) = Len(reads[i].block.data)

(***************************************************************************)
(* C17.  For every imagesInBlock a header can carry, every entry of the    *)
(* decoded imageNumbers is taken from the words 10..1023 of that same      *)
(* header record: readHeader reads no word at or beyond index 1024 of the  *)
(* header buffer.                                                          *)
(***************************************************************************)
HeaderWasRead(i) == reads[i].kind # "sentinel" /\ ~reads[i].hdrEof

C17_ImageNumbersComeFromTheRecord ==
    \A i \in DOMAIN reads :
      HeaderWasRead(i) =>
        \A h \in {DecodeHeader(records, reads[i].at)} :
          \A j \in DOMAIN h.imageNumbers :
            /\ ImageNumbersIndex + j - 1 <= HeaderWords - 1
            /\ h.imageNumbers[j]
                 = U32At(records, reads[i].at + (ImageNumbersIndex + j - 1) * U32Bytes)
            /\ reads[i].at + (ImageNumbersIndex + j) * U32Bytes <= reads[i].hdrPos

(***************************************************************************)
(* C18.  When an imageNumber occurs more than once in a stream, in one     *)
(* block or in several, the value at index imageNumber-1 at handoff is     *)
(* the one computed for its last occurrence in stream order (block         *)
(* arrival order, then image order in the block), whatever order the       *)
(* tasks completed in: values are overwritten, never accumulated.          *)
(***************************************************************************)
\* image i of record k is the last of the stream numbered as it is
LastOccurrence(recs, k, i) ==
    \A l \in DOMAIN recs : \A j \in DOMAIN recs[l].imageNumbers :
      recs[l].imageNumbers[j] = recs[k].imageNumbers[i] =>
        l < k \/ (l = k /\ j <= i)

HasRepeatedNumber(recs) ==
    \E k \in DOMAIN recs : \E i \in DOMAIN recs[k].imageNumbers :
      ~LastOccurrence(recs, k, i)

C18_LastOccurrenceWins ==
    (/\ pc = "done"
     /\ WellFormedStream(records, fileSize)
     /\ NumbersInRange(records, width * height)) =>
      \A k \in DOMAIN records : \A i \in DOMAIN records[k].imageNumbers :
        LastOccurrence(records, k, i) =>
          /\ sink[1].bright[records[k].imageNumbers[i]]
               = ExpectedValues(records, k, i).bright
          /\ sink[1].dark[records[k].imageNumbers[i]]
               = ExpectedValues(records, k, i).dark

\* a number occurring in two blocks whose tasks completed in reverse order
C18_AcrossBlocksWitness ==
    /\ pc = "done"
    /\ WellFormedStream(records, fileSize)
    /\ Len(records) >= 2
    /\ records[1].imageNumbers # <<>>
    /\ \E j \in DOMAIN records[2].imageNumbers :
         records[2].imageNumbers[j] = records[1].imageNumbers[1]
    /\ Len(completed) >= 2 /\ completed[1] = 2 /\ completed[2] = 1

(***************************************************************************)
(* C19.  Every data block read() returns is handed to exactly one task     *)
(* (one task per data block, none for the end-of-stream block), the task   *)
(* only reads the block, and the pixel buffer of the block is not          *)
(* released while its task has not completed.                              *)
(***************************************************************************)
IsDataBlockRead(i) ==
    reads[i].kind = "block" /\ reads[i].block.header.version # 0

\* the tasks that are queued or run
PendingTasks ==
    { tasks[i] : i \in DOMAIN tasks }
      \cup { running[w][1] : w \in { v \in DOMAIN running : running[v] # <<>> } }

C19_OneTaskPerDataBlock ==
    /\ \A i \in DOMAIN reads : IsDataBlockRead(i) <=> i \in DOMAIN results
    /\ Len(buffers) = Len(results)
    /\ \A t \in DOMAIN results :
         Cardinality({ i \in DOMAIN tasks : tasks[i].id = t })
           + Cardinality({ w \in DOMAIN running :
                             running[w] # <<>> /\ running[w][1].id = t })
           + Cardinality({ i \in DOMAIN completed : completed[i] = t }) = 1
    /\ \A t \in PendingTasks :
         /\ t.id \in DOMAIN results
         /\ t.block = reads[t.id].block
         /\ t.block.allocated
         /\ buffers[t.id] = "held"
         /\ ~results[t.id].ready

\* two data blocks then the end of the stream: the first task is done, the
\* second still runs with its buffer alive
C19_Witness ==
    /\ Len(reads) = 3 /\ reads[3].kind = "sentinel"
    /\ Len(results) = 2
    /\ completed = <<1>>
    /\ \E w \in DOMAIN running : running[w] # <<>> /\ running[w][1].id = 2
    /\ buffers = <<"released", "held">>
    /\ Len(reads[2].block.data) > 0

(***************************************************************************)
(* C20.  The two output images are written by the draining thread only:    *)
(* no step of a task changes either image, and the phase that reads the    *)
(* stream and submits the tasks leaves them unchanged; the masks are       *)
(* shared by the tasks, and no step of a task changes them.                *)
(***************************************************************************)
\* a step of a pool thread: it takes a task or ends one
WorkerStep == running' # running

ImagesChange == brightPixels' # brightPixels \/ darkPixels' # darkPixels

\* the two arrays come into being, zeroed, when the reading loop is left
ImagesCreated ==
    /\ pc = "reading" /\ pc' = "draining"
    /\ brightPixels = <<>> /\ darkPixels = <<>>
    /\ brightPixels' = [i \in 1..(width * height) |-> 0]
    /\ darkPixels' = brightPixels'

C20_OnlyTheDrainWritesTheImages ==
    [][ /\ WorkerStep =>
             UNCHANGED <<brightPixels, darkPixels, brightFieldMask, darkFieldMask>>
        /\ ImagesChange => (pc = "writing" /\ ~WorkerStep) \/ ImagesCreated
        /\ (pc \in {"start", "reading"} /\ ~ImagesCreated) => ~ImagesChange
        /\ brightFieldMask # NullMask => brightFieldMask' = brightFieldMask
        /\ darkFieldMask # NullMask => darkFieldMask' = darkFieldMask
        /\ \A t \in PendingTasks :
             t.bright = brightFieldMask /\ t.dark = darkFieldMask ]_vars

\* the arrays exist and are still zero, one task has returned a value that
\* is not zero, another one is still running
C20_Witness ==
    /\ pc = "draining" /\ next = 1
    /\ brightPixels # <<>>
    /\ \A i \in DOMAIN brightPixels : brightPixels[i] = 0 /\ darkPixels[i] = 0
    /\ \E t \in DOMAIN results :
         results[t].ready /\ results[t].values # <<>> /\ results[t].values[1].bright > 0
    /\ \E w \in DOMAIN running : running[w] # <<>>

====
